---- MODULE Spec2Model ----
(***************************************************************************)
(* casaos-gen: the versioned metadata store (version_manager.py), the      *)
(* compose differ and metadata merger (diff_engine.py) and the incremental *)
(* update pipeline (incremental.py, llm_stage1.py, parser.py).             *)
(*                                                                         *)
(* Four specifications share this module:                                  *)
(*   Spec       the store as a state machine: incremental_update,          *)
(*              backup_to_history and rollback_to_version act on one work  *)
(*              directory while the wall clock ticks;                      *)
(*   SpecMerge  the pure functions compute_compose_diff, build_casaos_meta *)
(*              and merge_meta_with_diff, then params and fill, applied to *)
(*              inputs drawn from bounded sets;                            *)
(*   SpecCommit incremental_update one store write at a time, with writes  *)
(*              that fail and processes that are killed;                   *)
(*   SpecRace   two incremental_update calls whose writes interleave.      *)
(*                                                                         *)
(* Python's None and an absent file are the empty sequence <<>>; a present *)
(* value v is <<v>>.  Texts are real strings.                              *)
(***************************************************************************)
EXTENDS Naturals, Integers, Sequences, FiniteSets, TLC

VARIABLES
    now,            \* wall clock in whole seconds (datetime.now() truncated by %S)
    config,         \* <<>> : no config.json; <<cfg>> : the parsed config dict
    current,        \* meta.current.json: <<>> or <<blob>>
    history,        \* history/meta.<timestamp>.json: timestamp -> blob
    composeHash,    \* compose.hash: <<>> or <<hex digest>>
    composeBackup,  \* compose.old.yml: <<>> or <<compose file>>
    paramsFile,     \* the params the caller passes: <<>> or <<params dict>>
    ops,            \* number of operations run so far
    last,           \* what the last operation was given and what it returned
    commit,         \* the update in progress, write by write (SpecCommit)
    scen,           \* progress along the scenario commit A, commit B, rollback
    in_old_meta,    \* SpecMerge: old_meta argument
    in_new_app,     \* SpecMerge: app text the caller put on the skeleton
    in_old_compose, \* SpecMerge: old_compose argument
    in_new_compose, \* SpecMerge: new_compose argument
    out_diff,       \* SpecMerge: <<>> or <<ComposeDiff>>
    out_skeleton,   \* SpecMerge: <<>> or <<new_meta before the merge>>
    out_merged,     \* SpecMerge: <<>> or <<merged meta>>
    pc              \* SpecMerge: position in the pipeline

storeVars == <<now, config, current, history, composeHash, composeBackup,
               paramsFile, ops, last, commit, scen>>
mergeVars == <<in_old_meta, in_new_app, in_old_compose, in_new_compose,
               out_diff, out_skeleton, out_merged, pc>>
vars == <<now, config, current, history, composeHash, composeBackup,
          paramsFile, ops, last, commit, scen,
          in_old_meta, in_new_app, in_old_compose, in_new_compose,
          out_diff, out_skeleton, out_merged, pc>>

(***************************************************************************)
(* Bounds of the model.                                                    *)
(***************************************************************************)
MaxClock == 3           \* the clock runs through seconds 1..MaxClock
MaxOps == 3             \* operations run on the work directory
MaxConfigVersions == 2  \* config.json sets max_history_versions in 1..MaxConfigVersions
MaxItems == 2           \* longest port/env/volume list of the SpecMerge inputs

(***************************************************************************)
(* Generic helpers.                                                        *)
(***************************************************************************)
None == <<>>
Some(v) == <<v>>
IsNone(o) == o = <<>>
Get(o) == o[1]

Range(s) == {s[i] : i \in 1..Len(s)}

RECURSIVE SeqsUpTo(_, _)
SeqsUpTo(S, n) ==
    IF n = 0 THEN {<<>>}
    ELSE LET shorter == SeqsUpTo(S, n - 1)
         IN  shorter \cup {Append(s, x) : s \in {t \in shorter : Len(t) = n - 1}, x \in S}

\* Iteration order of a Python set: unspecified, fixed for a given set.
RECURSIVE SetToSeq(_)
SetToSeq(S) ==
    IF S = {} THEN <<>>
    ELSE LET x == CHOOSE y \in S : TRUE IN <<x>> \o SetToSeq(S \ {x})

RECURSIVE Flatten(_)
Flatten(ss) == IF ss = <<>> THEN <<>> ELSE Head(ss) \o Flatten(Tail(ss))

Kinds == {"ports", "envs", "volumes"}

(***************************************************************************)
(* parser.py: compose service -> identifier lists, compose -> skeleton.    *)
(* A port entry "8080:80" is its colon-separated parts <<"8080","80">>, a  *)
(* volume entry "./d:/data:ro" is <<"./d","/data","ro">>, an environment   *)
(* entry "TZ=UTC" is [key |-> "TZ", value |-> "UTC"].                      *)
(***************************************************************************)
Item(c) == [container |-> c, description |-> ""]

\* parse_port_entry: <<host, container>>, "" standing for None
parse_port_entry(parts) ==
    IF Len(parts) >= 3 THEN <<parts[Len(parts) - 1], parts[Len(parts)]>>
    ELSE IF Len(parts) = 2 THEN <<parts[1], parts[2]>>
    ELSE <<"", parts[1]>>

collect_port_pairs(service) ==
    LET pairs == [i \in 1..Len(service.ports) |-> parse_port_entry(service.ports[i])]
    IN  SelectSeq(pairs, LAMBDA p : p[1] # "" \/ p[2] # "")

extract_ports(service) ==
    LET pairs == SelectSeq(collect_port_pairs(service), LAMBDA p : p[2] # "")
    IN  [i \in 1..Len(pairs) |-> Item(pairs[i][2])]

extract_envs(service) ==
    LET keys == SelectSeq(service.environment, LAMBDA e : e.key # "")
    IN  [i \in 1..Len(keys) |-> Item(keys[i].key)]

parse_volume_entry(parts) ==
    IF Len(parts) >= 2 THEN parts[2] ELSE parts[1]

extract_volumes(service) ==
    LET paths == [i \in 1..Len(service.volumes) |-> parse_volume_entry(service.volumes[i])]
        kept  == SelectSeq(paths, LAMBDA p : p # "")
    IN  [i \in 1..Len(kept) |-> Item(kept[i])]

extract(kind, service) ==
    CASE kind = "ports"   -> extract_ports(service)
      [] kind = "envs"    -> extract_envs(service)
      [] kind = "volumes" -> extract_volumes(service)

\* build_casaos_meta raises ValueError unless the compose has services.
HasServices(compose) == DOMAIN compose.services # {}

\* AppMeta() leaves title, tagline and description at their "" defaults; the
\* inferred category/author/main/port_map are read by none of the operations
\* modelled here and are left out.
build_casaos_meta(compose) ==
    [app      |-> [title |-> "", tagline |-> "", description |-> ""],
     services |-> [n \in DOMAIN compose.services |->
                     [envs    |-> extract_envs(compose.services[n]),
                      ports   |-> extract_ports(compose.services[n]),
                      volumes |-> extract_volumes(compose.services[n])]]]

(***************************************************************************)
(* diff_engine.py: compute_compose_diff.                                   *)
(***************************************************************************)
FieldPath(svc, kind, id) == "services." \o svc \o "." \o kind \o "." \o id

AddedChange(svc, kind, id) ==
    [path |-> FieldPath(svc, kind, id), change_type |-> "added",
     old_value |-> None, new_value |-> Some(id)]

RemovedChange(svc, kind, id) ==
    [path |-> FieldPath(svc, kind, id), change_type |-> "removed",
     old_value |-> Some(id), new_value |-> None]

Containers(items) == {items[i].container : i \in 1..Len(items)}

compare_added_all(svc, kind, old_svc, new_svc) ==
    LET ids == SetToSeq(Containers(extract(kind, new_svc)))
    IN  [i \in 1..Len(ids) |-> AddedChange(svc, kind, ids[i])]

\* _compare_ports / _compare_envs / _compare_volumes: the added changes
compare_added(svc, kind, old_svc, new_svc) ==
    LET old_ids == Containers(extract(kind, old_svc))
        new_ids == Containers(extract(kind, new_svc))
        ids     == SetToSeq(new_ids \ old_ids)
    IN  [i \in 1..Len(ids) |-> AddedChange(svc, kind, ids[i])]

compare_removed_by_entries(svc, kind, old_svc, new_svc) ==
    LET old_ids == Containers(extract(kind, old_svc))
        new_ids == Containers(extract(kind, new_svc))
        ids     == SetToSeq(IF old_svc = new_svc THEN old_ids \ new_ids ELSE old_ids)
    IN  [i \in 1..Len(ids) |-> RemovedChange(svc, kind, ids[i])]

\* _compare_ports / _compare_envs / _compare_volumes: the removed changes
compare_removed(svc, kind, old_svc, new_svc) ==
    LET old_ids == Containers(extract(kind, old_svc))
        new_ids == Containers(extract(kind, new_svc))
        ids     == SetToSeq(old_ids \ new_ids)
    IN  [i \in 1..Len(ids) |-> RemovedChange(svc, kind, ids[i])]

KindOrder == <<"ports", "envs", "volumes">>

added_service_fields_ports_only(svc, new_svc) ==
    LET items == extract("ports", new_svc)
    IN  [i \in 1..Len(items) |-> AddedChange(svc, "ports", items[i].container)]

\* every port, env and volume of one newly added service, duplicates included
added_service_fields(svc, new_svc) ==
    Flatten([k \in 1..3 |->
        LET items == extract(KindOrder[k], new_svc)
        IN  [i \in 1..Len(items) |-> AddedChange(svc, KindOrder[k], items[i].container)]])

\* ComposeDiff.has_changes
has_changes(diff) ==
    \/ diff.added_services # {}
    \/ diff.removed_services # {}
    \/ diff.added_fields # <<>>
    \/ diff.removed_fields # <<>>
    \/ diff.modified_fields # <<>>

\* new_service_names - old_service_names
added_services(old_compose, new_compose) ==
    DOMAIN new_compose.services \ DOMAIN old_compose.services

removed_services_all(old_compose, new_compose) == DOMAIN old_compose.services

\* old_service_names - new_service_names
removed_services(old_compose, new_compose) ==
    DOMAIN old_compose.services \ DOMAIN new_compose.services

compute_compose_diff(old_compose, new_compose) ==
    LET old_names == DOMAIN old_compose.services
        new_names == DOMAIN new_compose.services
        added     == added_services(old_compose, new_compose)
        removed   == removed_services(old_compose, new_compose)
        common    == SetToSeq(old_names \cap new_names)
        addedSeq  == SetToSeq(added)
        commonAdded ==
            Flatten([s \in 1..Len(common) |-> Flatten([k \in 1..3 |->
                compare_added(common[s], KindOrder[k],
                              old_compose.services[common[s]],
                              new_compose.services[common[s]])])])
        commonRemoved ==
            Flatten([s \in 1..Len(common) |-> Flatten([k \in 1..3 |->
                compare_removed(common[s], KindOrder[k],
                                old_compose.services[common[s]],
                                new_compose.services[common[s]])])])
        newSvcAdded ==
            Flatten([s \in 1..Len(addedSeq) |->
                added_service_fields(addedSeq[s], new_compose.services[addedSeq[s]])])
    IN  [added_services   |-> added,
         removed_services |-> removed,
         added_fields     |-> commonAdded \o newSvcAdded,
         removed_fields   |-> commonRemoved,
         modified_fields  |-> <<>>]

(***************************************************************************)
(* diff_engine.py: merge_meta_with_diff.                                   *)
(***************************************************************************)
\* {p.container: p for p in items}: a later item replaces an earlier one
DictHas(items, id) == \E i \in 1..Len(items) : items[i].container = id
DictGet(items, id) ==
    LET last_i == CHOOSE i \in 1..Len(items) :
                      /\ items[i].container = id
                      /\ \A j \in (i + 1)..Len(items) : items[j].container # id
    IN  items[last_i]

merge_items_appending_old(old_items, new_items) ==
    [i \in 1..Len(new_items) |->
        IF /\ DictHas(old_items, new_items[i].container)
           /\ DictGet(old_items, new_items[i].container).description # ""
        THEN [new_items[i] EXCEPT !.description =
                  DictGet(old_items, new_items[i].container).description]
        ELSE new_items[i]]
    \o SelectSeq(old_items, LAMBDA o : ~DictHas(new_items, o.container))

\* the loop over new_svc.ports / envs / volumes (one loop per kind, same code)
merge_items(old_items, new_items) ==
    [i \in 1..Len(new_items) |->
        IF /\ DictHas(old_items, new_items[i].container)
           /\ DictGet(old_items, new_items[i].container).description # ""
        THEN [new_items[i] EXCEPT !.description =
                  DictGet(old_items, new_items[i].container).description]
        ELSE new_items[i]]

CasaOSSuffix == " on CasaOS"

merge_app(old_app, new_app) ==
    LET title == IF old_app.title # "" /\ old_app.title # new_app.title
                 THEN old_app.title ELSE new_app.title
        tagline == IF old_app.tagline # "" /\ old_app.tagline # title \o CasaOSSuffix
                   THEN old_app.tagline ELSE new_app.tagline
        description == IF old_app.description # "" /\ Len(old_app.description) > 100
                       THEN old_app.description ELSE new_app.description
    IN  [title |-> title, tagline |-> tagline, description |-> description]

merge_meta_with_diff(old_meta, new_meta, diff) ==
    [app      |-> merge_app(old_meta.app, new_meta.app),
     services |-> [n \in DOMAIN new_meta.services |->
        IF n \notin DOMAIN old_meta.services
        THEN new_meta.services[n]
        ELSE [envs    |-> merge_items(old_meta.services[n].envs,
                                      new_meta.services[n].envs),
              ports   |-> merge_items(old_meta.services[n].ports,
                                      new_meta.services[n].ports),
              volumes |-> merge_items(old_meta.services[n].volumes,
                                      new_meta.services[n].volumes)]]]

(***************************************************************************)
(* version_manager.py: the store.                                          *)
(***************************************************************************)
DefaultMaxHistoryVersions == 3

\* meta.model_dump_json / CasaOSMeta.model_validate_json: the file holds a
\* JSON text; validation gives the meta back only when the text is a valid one.
model_dump_json(meta) == [valid |-> TRUE, meta |-> meta]
model_validate_json(blob) == IF blob.valid THEN Some(blob.meta) ELSE None

\* _load_config: the default dict when config.json is absent
load_config(cfg) ==
    IF cfg = None
    THEN [max_history_versions |-> Some(DefaultMaxHistoryVersions),
          auto_backup_before_update |-> Some(TRUE)]
    ELSE Get(cfg)

\* config.get("max_history_versions", 3)
max_history_versions(cfg) ==
    IF load_config(cfg).max_history_versions = None
    THEN DefaultMaxHistoryVersions
    ELSE Get(load_config(cfg).max_history_versions)

auto_backup_never(cfg) == FALSE

\* config.get("auto_backup_before_update", True)
auto_backup_before_update(cfg) ==
    IF load_config(cfg).auto_backup_before_update = None
    THEN TRUE
    ELSE Get(load_config(cfg).auto_backup_before_update)

compute_compose_hash_constant(file) == "sha256:"

\* hashlib.sha256(bytes).hexdigest(): one digest per file content
compute_compose_hash(file) == "sha256:" \o file

has_compose_changed_always(hashFile, file) == TRUE

has_compose_changed(hashFile, file) ==
    IF hashFile = None THEN TRUE
    ELSE Get(hashFile) # compute_compose_hash(file)

load_current_meta(cur) ==
    IF cur = None THEN None ELSE model_validate_json(Get(cur))

\* sorted(glob("meta.*.json"), reverse=True): the timestamps, newest first
RECURSIVE SortedDesc(_)
SortedDesc(keys) ==
    IF keys = {} THEN <<>>
    ELSE LET m == CHOOSE k \in keys : \A j \in keys : j <= k
         IN  <<m>> \o SortedDesc(keys \ {m})

list_history(hist) == SortedDesc(DOMAIN hist)

Restrict(f, S) == [k \in S |-> f[k]]

cleanup_keeping_oldest(hist, cfg) ==
    LET max_versions == max_history_versions(cfg)
        versions == SortedDesc(DOMAIN hist)
    IN  IF Len(versions) > max_versions
        THEN Restrict(hist, {versions[i] :
                 i \in (Len(versions) - max_versions + 1)..Len(versions)})
        ELSE hist

cleanup_keeping_one_more(hist, cfg) ==
    LET max_versions == max_history_versions(cfg)
        versions == SortedDesc(DOMAIN hist)
    IN  IF Len(versions) > max_versions + 1
        THEN Restrict(hist, {versions[i] : i \in 1..(max_versions + 1)})
        ELSE hist

\* _cleanup_old_versions: unlink versions[max_versions:]
cleanup_old_versions(hist, cfg) ==
    LET max_versions == max_history_versions(cfg)
        versions == SortedDesc(DOMAIN hist)
    IN  IF Len(versions) > max_versions
        THEN Restrict(hist, {versions[i] : i \in 1..max_versions})
        ELSE hist

\* backup_to_history at second t: [ret, history]; the file name is the second
backup_to_history(cur, hist, cfg, t) ==
    IF cur = None
    THEN [ret |-> None, history |-> hist]
    ELSE [ret |-> Some(t),
          history |-> cleanup_old_versions((t :> Get(cur)) @@ hist, cfg)]

rollback_backing_up_first(cur, hist, cfg, t, version_file) ==
    LET backed == IF cur # None THEN backup_to_history(cur, hist, cfg, t).history ELSE hist
    IN  IF version_file \notin DOMAIN backed
        THEN [raised |-> "FileNotFoundError", current |-> cur, history |-> backed]
        ELSE [raised |-> "", current |-> Some(backed[version_file]), history |-> backed]

\* rollback_to_version at second t: [raised, current, history]
rollback_to_version(cur, hist, cfg, t, version_file) ==
    IF version_file \notin DOMAIN hist
    THEN [raised |-> "FileNotFoundError", current |-> cur, history |-> hist]
    ELSE LET backed == IF cur # None
                       THEN backup_to_history(cur, hist, cfg, t).history
                       ELSE hist
         IN  \* shutil.copy2(src, current): src may have been unlinked by the backup
             IF version_file \notin DOMAIN backed
             THEN [raised |-> "FileNotFoundError", current |-> cur, history |-> backed]
             ELSE [raised |-> "", current |-> Some(backed[version_file]),
                   history |-> backed]

(***************************************************************************)
(* llm_stage1.py: the external fill.  What the service sends back is an    *)
(* input: reply.ok says whether the call and the parsing of its answer     *)
(* succeeded; an answer has the shape it was asked to fill, puts           *)
(* reply.fill into every empty text and, when reply.rewrite, puts          *)
(* RewriteText over every non-empty one.                                   *)
(***************************************************************************)
GenText == "Generated text"
RewriteText == "Rewritten text"
UserText == "User text"

LLMText(text, reply) ==
    IF text = "" THEN reply.fill
    ELSE IF reply.rewrite THEN RewriteText ELSE text

LLMItems(items, reply) ==
    [i \in 1..Len(items) |->
        [items[i] EXCEPT !.description = LLMText(items[i].description, reply)]]

\* CasaOSMeta.model_validate(_parse_json_response(content))
LLMAnswer(structure, reply) ==
    [app      |-> [title       |-> LLMText(structure.app.title, reply),
                   tagline     |-> LLMText(structure.app.tagline, reply),
                   description |-> LLMText(structure.app.description, reply)],
     services |-> [n \in DOMAIN structure.services |->
                     [envs    |-> LLMItems(structure.services[n].envs, reply),
                      ports   |-> LLMItems(structure.services[n].ports, reply),
                      volumes |-> LLMItems(structure.services[n].volumes, reply)]]]

fill_missing_app_text(meta, fallback) ==
    [meta EXCEPT
        !.app.title = IF meta.app.title = "" THEN fallback.app.title ELSE @,
        !.app.tagline = IF meta.app.tagline = "" THEN fallback.app.tagline ELSE @,
        !.app.description =
            IF meta.app.description = "" THEN fallback.app.description ELSE @]

IsLastOf(items, i) == \A j \in (i + 1)..Len(items) : items[j].container # items[i].container

\* original_mapping[svc][kind]: container -> description, non-blank ones only
MappingHas(items, id) ==
    \E i \in 1..Len(items) : items[i].container = id /\ items[i].description # ""
MappingGet(items, id) ==
    LET last_i == CHOOSE i \in 1..Len(items) :
                      /\ items[i].container = id /\ items[i].description # ""
                      /\ \A j \in (i + 1)..Len(items) :
                            ~(items[j].container = id /\ items[j].description # "")
    IN  items[last_i].description

restore_items(meta_items, original_items) ==
    [i \in 1..Len(meta_items) |->
        IF IsLastOf(meta_items, i) /\ MappingHas(original_items, meta_items[i].container)
        THEN [meta_items[i] EXCEPT
                 !.description = MappingGet(original_items, meta_items[i].container)]
        ELSE meta_items[i]]

\* _filter_empty_fields records the non-blank texts of `original`;
\* _restore_existing_fields writes them back over the answer
restore_existing_fields(meta, original) ==
    [app      |-> [title |-> IF original.app.title # ""
                             THEN original.app.title ELSE meta.app.title,
                   tagline |-> IF original.app.tagline # ""
                               THEN original.app.tagline ELSE meta.app.tagline,
                   description |-> IF original.app.description # ""
                                   THEN original.app.description
                                   ELSE meta.app.description],
     services |-> [n \in DOMAIN meta.services |->
        IF n \notin DOMAIN original.services THEN meta.services[n]
        ELSE [envs    |-> restore_items(meta.services[n].envs, original.services[n].envs),
              ports   |-> restore_items(meta.services[n].ports, original.services[n].ports),
              volumes |-> restore_items(meta.services[n].volumes,
                                        original.services[n].volumes)]]]

\* run_stage1_llm: [raised, meta]
run_stage1_llm(structure, only_fill_empty, reply) ==
    IF ~reply.ok
    THEN [raised |-> "LLMError", meta |-> None]
    ELSE LET answered == fill_missing_app_text(LLMAnswer(structure, reply), structure)
         IN  [raised |-> "",
              meta   |-> Some(IF only_fill_empty
                              THEN restore_existing_fields(answered, structure)
                              ELSE answered)]

(***************************************************************************)
(* incremental.py.                                                         *)
(***************************************************************************)
has_empty_descriptions(meta) ==
    \/ meta.app.title = ""
    \/ meta.app.tagline = ""
    \/ meta.app.description = ""
    \/ \E n \in DOMAIN meta.services :
          \/ \E i \in 1..Len(meta.services[n].ports) :
                meta.services[n].ports[i].description = ""
          \/ \E i \in 1..Len(meta.services[n].envs) :
                meta.services[n].envs[i].description = ""
          \/ \E i \in 1..Len(meta.services[n].volumes) :
                meta.services[n].volumes[i].description = ""

\* _run_llm_fill: [raised, meta, called].  The call at incremental.py:166-172
\* hands run_stage1_llm no only_fill_empty, so its default False applies.
run_llm_fill(meta, only_fill_empty, reply) ==
    IF only_fill_empty /\ ~has_empty_descriptions(meta)
    THEN [raised |-> "", meta |-> Some(meta), called |-> FALSE]
    ELSE LET r == run_stage1_llm(meta, FALSE, reply)
         IN  [raised |-> r.raised, meta |-> r.meta, called |-> TRUE]

ParamHas(param_items, id) ==
    \E i \in 1..Len(param_items) :
        param_items[i].container = id /\ param_items[i].description # ""
ParamGet(param_items, id) ==
    LET last_i == CHOOSE i \in 1..Len(param_items) :
                      /\ param_items[i].container = id /\ param_items[i].description # ""
                      /\ \A j \in (i + 1)..Len(param_items) :
                            ~(param_items[j].container = id
                              /\ param_items[j].description # "")
    IN  param_items[last_i].description

\* port_map = {p.container: p ...}; port_map[container].description = desc
apply_param_items(items, param_items) ==
    [i \in 1..Len(items) |->
        IF IsLastOf(items, i) /\ items[i].container # ""
           /\ ParamHas(param_items, items[i].container)
        THEN [items[i] EXCEPT !.description = ParamGet(param_items, items[i].container)]
        ELSE items[i]]

apply_params_to_meta(meta, params) ==
    [app      |-> [title |-> IF params.app.title # ""
                             THEN params.app.title ELSE meta.app.title,
                   tagline |-> IF params.app.tagline # ""
                               THEN params.app.tagline ELSE meta.app.tagline,
                   description |-> IF params.app.description # ""
                                   THEN params.app.description
                                   ELSE meta.app.description],
     services |-> [n \in DOMAIN meta.services |->
        IF n \notin DOMAIN params.services THEN meta.services[n]
        ELSE [envs    |-> apply_param_items(meta.services[n].envs,
                                            params.services[n].envs),
              ports   |-> apply_param_items(meta.services[n].ports,
                                            params.services[n].ports),
              volumes |-> apply_param_items(meta.services[n].volumes,
                                            params.services[n].volumes)]]]

\* The compose files the caller may pass, by content; load_compose_file is
\* yaml.safe_load of that content.
WebService(ports) ==
    [image |-> "nginx", ports |-> ports,
     environment |-> <<[key |-> "TZ", value |-> "UTC"]>>, volumes |-> <<>>]

ComposeFiles ==
    ("web80"     :> [services |-> ("web" :> WebService(<<<<"8080", "80">>>>))]) @@
    ("web80-443" :> [services |-> ("web" :> WebService(<<<<"8080", "80">>, <<"443">>>>))]) @@
    ("empty"     :> [services |-> <<>>])

load_compose_file(file) == ComposeFiles[file]

Store(cur, hist, hashFile, backupFile) ==
    [current |-> cur, history |-> hist, composeHash |-> hashFile,
     composeBackup |-> backupFile]

save_current_meta(st, meta) == [st EXCEPT !.current = Some(model_dump_json(meta))]

update_compose_hash_skipped(st, file) == st

update_compose_hash(st, file) ==
    [st EXCEPT !.composeHash = Some(compute_compose_hash(file))]

\* compose_path.exists() holds for every file load_compose_file has read
backup_compose_file(st, file) == [st EXCEPT !.composeBackup = Some(file)]

\* the writes of _save_and_backup, in the order of its statements
CommitWrites == <<"backup", "current", "hash", "compose">>

commit_write_saving_first(st, cfg, t, new_meta, file, old_meta, step) ==
    CASE CommitWrites[step] = "current" ->
            IF old_meta # None /\ auto_backup_before_update(cfg)
            THEN [st EXCEPT !.history =
                     backup_to_history(st.current, st.history, cfg, t).history]
            ELSE st
      [] CommitWrites[step] = "backup"  -> save_current_meta(st, new_meta)
      [] CommitWrites[step] = "hash"    -> update_compose_hash(st, file)
      [] CommitWrites[step] = "compose" -> backup_compose_file(st, file)

\* statement number `step` of _save_and_backup applied to the store st
commit_write(st, cfg, t, new_meta, file, old_meta, step) ==
    CASE CommitWrites[step] = "backup" ->
            IF old_meta # None /\ auto_backup_before_update(cfg)
            THEN [st EXCEPT !.history =
                     backup_to_history(st.current, st.history, cfg, t).history]
            ELSE st
      [] CommitWrites[step] = "current" -> save_current_meta(st, new_meta)
      [] CommitWrites[step] = "hash"    -> update_compose_hash(st, file)
      [] CommitWrites[step] = "compose" -> backup_compose_file(st, file)

RECURSIVE commit_writes_upto(_, _, _, _, _, _, _)
commit_writes_upto(st, cfg, t, new_meta, file, old_meta, step) ==
    IF step = 0 THEN st
    ELSE commit_write(commit_writes_upto(st, cfg, t, new_meta, file, old_meta, step - 1),
                      cfg, t, new_meta, file, old_meta, step)

\* _save_and_backup at second t: the store after the commit
save_and_backup(st, cfg, t, new_meta, file, old_meta) ==
    commit_writes_upto(st, cfg, t, new_meta, file, old_meta, Len(CommitWrites))

OutcomeAlwaysDiff(raised, meta, diff, path, called, merged, prefill, st) ==
    [raised |-> raised, meta |-> meta,
     diff |-> Some(compute_compose_diff([services |-> <<>>], [services |-> <<>>])),
     path |-> path, llm_called |-> called, merged |-> merged, prefill |-> prefill,
     store |-> st]

Outcome(raised, meta, diff, path, called, merged, prefill, st) ==
    [raised |-> raised, meta |-> meta, diff |-> diff, path |-> path,
     llm_called |-> called, merged |-> merged, prefill |-> prefill, store |-> st]

fill_only_added_fields(meta, path, diff, llm) ==
    IF path = "incremental"
    THEN IF llm # None /\ Get(diff).added_fields # <<>>
         THEN run_llm_fill(meta, TRUE, Get(llm))
         ELSE [raised |-> "", meta |-> Some(meta), called |-> FALSE]
    ELSE IF llm # None
    THEN run_llm_fill(meta, FALSE, Get(llm))
    ELSE [raised |-> "", meta |-> Some(meta), called |-> FALSE]

\* the "if llm_config" statements of incremental_update: on the incremental
\* path both branches (added fields or not) fill with only_fill_empty=True
fill_if_configured(meta, path, diff, llm) ==
    IF path = "incremental"
    THEN IF llm # None /\ Get(diff).added_fields # <<>>
         THEN run_llm_fill(meta, TRUE, Get(llm))
         ELSE IF llm # None
         THEN run_llm_fill(meta, TRUE, Get(llm))
         ELSE [raised |-> "", meta |-> Some(meta), called |-> FALSE]
    ELSE IF llm # None
    THEN run_llm_fill(meta, FALSE, Get(llm))
    ELSE [raised |-> "", meta |-> Some(meta), called |-> FALSE]

\* build, params, fill, commit: the tail shared by the three generating paths
generate_and_commit(st, cfg, t, file, params, llm, old_meta, diff, path) ==
    LET new_compose == load_compose_file(file)
        skeleton == build_casaos_meta(new_compose)
        merged == IF path = "incremental"
                  THEN merge_meta_with_diff(Get(old_meta), skeleton, Get(diff))
                  ELSE skeleton
        with_params == IF params # None
                       THEN apply_params_to_meta(merged, Get(params))
                       ELSE merged
        filled == fill_if_configured(with_params, path, diff, llm)
    IN  IF ~HasServices(new_compose)
        THEN Outcome("ValueError", None, None, path, FALSE, None, None, st)
        ELSE IF filled.raised # ""
        THEN Outcome(filled.raised, None, None, path, TRUE,
                     Some(merged), Some(with_params), st)
        ELSE Outcome("", filled.meta, diff, path, filled.called,
                     Some(merged), Some(with_params),
                     save_and_backup(st, cfg, t, Get(filled.meta), file, old_meta))

\* incremental_update at second t
incremental_update(st, cfg, t, file, params, force, llm) ==
    LET cached == load_current_meta(st.current)
        old_meta == load_current_meta(st.current)
    IN  IF ~force /\ ~has_compose_changed(st.composeHash, file) /\ cached # None
        THEN Outcome("", cached, None, "cache", FALSE, None, None, st)
        ELSE IF old_meta = None \/ force
        THEN generate_and_commit(st, cfg, t, file, params, llm,
                                 old_meta, None, "full")
        ELSE IF st.composeBackup = None
        THEN generate_and_commit(st, cfg, t, file, params, llm,
                                 old_meta, None, "nobackup")
        ELSE generate_and_commit(st, cfg, t, file, params, llm, old_meta,
                 Some(compute_compose_diff(load_compose_file(Get(st.composeBackup)),
                                           load_compose_file(file))),
                 "incremental")

show_compose_diff_recording(st, file) ==
    [diff  |-> IF st.composeBackup = None THEN None
               ELSE Some(compute_compose_diff(load_compose_file(Get(st.composeBackup)),
                                              load_compose_file(file))),
     store |-> backup_compose_file(st, file)]

\* show_compose_diff: [diff, store]; it calls no method that writes
show_compose_diff(st, file) ==
    [diff  |-> IF st.composeBackup = None THEN None
               ELSE Some(compute_compose_diff(load_compose_file(Get(st.composeBackup)),
                                              load_compose_file(file))),
     store |-> st]

(***************************************************************************)
(* Spec: the operations on one work directory.  Operations between two     *)
(* ticks of the clock run within the same second.                          *)
(***************************************************************************)
LLMReplies ==
    {[ok |-> FALSE, fill |-> "", rewrite |-> FALSE],
     [ok |-> TRUE, fill |-> GenText, rewrite |-> FALSE],
     [ok |-> TRUE, fill |-> GenText, rewrite |-> TRUE]}

\* llm_config: None, or a configured service together with what it will answer
LLMChoices == {None} \cup {Some(reply) : reply \in LLMReplies}

UserParams ==
    [app      |-> [title |-> "", tagline |-> "", description |-> ""],
     services |-> ("web" :> [ports   |-> <<[container |-> "80", description |-> UserText]>>,
                             envs    |-> <<>>,
                             volumes |-> <<>>])]

ParamsChoices == {None, Some(UserParams)}

ConfigChoices ==
    {None} \cup
    {Some([max_history_versions |-> Some(n), auto_backup_before_update |-> a]) :
        n \in 1..MaxConfigVersions, a \in {None, Some(FALSE)}}

NoLast ==
    [op |-> "init", file |-> "", key |-> 0, listed |-> FALSE, raised |-> "",
     meta |-> None, diff |-> FALSE, path |-> "", llm_called |-> FALSE,
     again |-> FALSE, trimmed |-> FALSE]

NoScenario == [phase |-> 9, A |-> None, B |-> None, kA |-> 0]

TheStore == Store(current, history, composeHash, composeBackup)

Init ==
    /\ now = 1
    /\ config \in ConfigChoices
    /\ current = None
    /\ history = <<>>
    /\ composeHash = None
    /\ composeBackup = None
    /\ paramsFile \in ParamsChoices
    /\ ops = 0
    /\ last = NoLast
    /\ commit = <<>>
    /\ scen = IF config = None THEN [NoScenario EXCEPT !.phase = 0] ELSE NoScenario
    /\ in_old_meta = None
    /\ in_new_app = None
    /\ in_old_compose = None
    /\ in_new_compose = None
    /\ out_diff = None
    /\ out_skeleton = None
    /\ out_merged = None
    /\ pc = "store"

\* The clock reaches the next second.  Seconds are told apart only by the
\* backups written in them, so time is let pass only once the current second
\* names a history file.
Tick ==
    /\ now < MaxClock
    /\ now \in DOMAIN history
    /\ now' = now + 1
    /\ UNCHANGED <<config, current, history, composeHash, composeBackup,
                   paramsFile, ops, last, commit, scen>>
    /\ UNCHANGED mergeVars

\* the history keys an operation unlinked
Deleted(before, after) ==
    {k \in DOMAIN before : k \notin DOMAIN after}

\* scenario of commit A, commit B (A backed up under kA), rollback(kA)
ScenarioAfterUpdate(r) ==
    IF r.raised = "" /\ r.path # "cache" /\ scen.phase = 0
    THEN [scen EXCEPT !.phase = 1, !.A = r.meta]
    ELSE IF r.raised = "" /\ r.path # "cache" /\ scen.phase = 1
    THEN [scen EXCEPT !.phase = 2, !.B = r.meta, !.kA = now]
    ELSE NoScenario

IncrementalUpdate(file, force, llm) ==
    LET r == incremental_update(TheStore, config, now, file, paramsFile, force, llm)
    IN  /\ ops < MaxOps
        /\ ops' = ops + 1
        /\ current' = r.store.current
        /\ history' = r.store.history
        /\ composeHash' = r.store.composeHash
        /\ composeBackup' = r.store.composeBackup
        /\ last' = [NoLast EXCEPT !.op = "update", !.file = file,
                       !.raised = r.raised, !.meta = r.meta,
                       !.diff = r.diff # None,
                       !.again = /\ last.op = "update" /\ last.raised = ""
                                 /\ last.file = file /\ ~force,
                       !.path = r.path, !.llm_called = r.llm_called,
                       !.trimmed = Deleted(history, r.store.history) # {}]
        /\ scen' = ScenarioAfterUpdate(r)
        /\ UNCHANGED <<now, config, paramsFile, commit>>
        /\ UNCHANGED mergeVars

BackupToHistory ==
    LET r == backup_to_history(current, history, config, now)
    IN  /\ ops < MaxOps
        /\ ops' = ops + 1
        /\ history' = r.history
        /\ last' = [NoLast EXCEPT !.op = "backup",
                       !.key = IF r.ret = None THEN 0 ELSE Get(r.ret),
                       !.listed = r.ret # None,
                       !.trimmed = Deleted(history, r.history) # {}]
        /\ scen' = NoScenario
        /\ UNCHANGED <<now, config, current, composeHash, composeBackup, paramsFile,
                       commit>>
        /\ UNCHANGED mergeVars

RollbackToVersion(version_file) ==
    LET r == rollback_to_version(current, history, config, now, version_file)
    IN  /\ ops < MaxOps
        /\ ops' = ops + 1
        /\ current' = r.current
        /\ history' = r.history
        /\ last' = [NoLast EXCEPT !.op = "rollback", !.key = version_file,
                       !.listed = version_file \in DOMAIN history,
                       !.raised = r.raised,
                       !.trimmed = Deleted(history, r.history) # {}]
        /\ scen' = IF scen.phase = 2 /\ version_file = scen.kA
                   THEN [scen EXCEPT !.phase = 3]
                   ELSE NoScenario
        /\ UNCHANGED <<now, config, composeHash, composeBackup, paramsFile, commit>>
        /\ UNCHANGED mergeVars

Next ==
    \/ Tick
    \/ \E file \in DOMAIN ComposeFiles, force \in BOOLEAN, llm \in LLMChoices :
          IncrementalUpdate(file, force, llm)
    \/ BackupToHistory
    \/ \E version_file \in 1..MaxClock : RollbackToVersion(version_file)

Spec == Init /\ [][Next]_vars

(***************************************************************************)
(* SpecMerge: compute_compose_diff, build_casaos_meta and                  *)
(* merge_meta_with_diff on bounded inputs, in the order incremental_update *)
(* calls them (incremental.py:88-97).                                      *)
(***************************************************************************)
IdsOf(kind) ==
    CASE kind = "ports"   -> {"80", "443"}
      [] kind = "envs"    -> {"TZ", "DEBUG"}
      [] kind = "volumes" -> {"/data", "/config"}

ItemTexts == {"", "Old text", "Other text"}

\* one compose entry that yields identifier id
EntryFor(kind, id) ==
    CASE kind = "ports"   -> <<"8" \o id, id>>
      [] kind = "envs"    -> [key |-> id, value |-> "x"]
      [] kind = "volumes" -> <<"./host", id>>

\* the same identifier under another host port, value or host directory
AltEntryFor(kind, id) ==
    CASE kind = "ports"   -> <<"9" \o id, id>>
      [] kind = "envs"    -> [key |-> id, value |-> "y"]
      [] kind = "volumes" -> <<"./other", id>>

\* entries of the old compose file: none, one, a repeated one, two
OldEntryLists(kind) ==
    LET a == CHOOSE id \in IdsOf(kind) : TRUE
        b == CHOOSE id \in IdsOf(kind) : id # a
    IN  {<<>>, <<EntryFor(kind, a)>>, <<AltEntryFor(kind, a), AltEntryFor(kind, a)>>,
         <<AltEntryFor(kind, b), EntryFor(kind, a)>>}

OldImages == {"nginx", "nginx:1.24"}

OldItemLists(kind) ==
    SeqsUpTo([container : IdsOf(kind), description : ItemTexts], MaxItems)

NewEntryLists(kind) ==
    SeqsUpTo({EntryFor(kind, id) : id \in IdsOf(kind)}, MaxItems)

EmptyService == [image |-> "nginx", ports |-> <<>>, environment |-> <<>>, volumes |-> <<>>]
EmptyServiceMeta == [envs |-> <<>>, ports |-> <<>>, volumes |-> <<>>]

ComposeKey(kind) == IF kind = "envs" THEN "environment" ELSE kind

DbService == [EmptyService EXCEPT !.image = "postgres", !.ports = <<<<"5432", "5432">>>>]
DbServiceMeta ==
    [EmptyServiceMeta EXCEPT !.ports = <<[container |-> "5432", description |-> "Old text"]>>]

ServiceNameSets == {{"web"}, {"web", "db"}, {"db"}}

LongText ==
    "This description is long enough to pass the length threshold of the merge: " \o
    "it has more than one hundred characters."

OldApps ==
    [title : {"", "My App"},
     tagline : {"", "My App on CasaOS", "Custom tagline"},
     description : {"", "Short", LongText}]

NewApps == {[title |-> "", tagline |-> "", description |-> ""],
            [title |-> "web", tagline |-> "web on CasaOS", description |-> ""]}

AuthoredApp == [title |-> "My App", tagline |-> "Custom tagline", description |-> LongText]

MergeOldMeta(names, kind, items, app) ==
    [app      |-> app,
     services |-> [n \in names |->
        IF n = "web" THEN [EmptyServiceMeta EXCEPT ![kind] = items] ELSE DbServiceMeta]]

MergeCompose(names, kind, entries) ==
    [services |-> [n \in names |->
        IF n = "web" THEN [EmptyService EXCEPT ![ComposeKey(kind)] = entries] ELSE DbService]]

\* Two families of inputs: every pair of item lists of one kind under a fixed
\* authored app block; every pair of app blocks under fixed item lists.
MergeInit ==
    /\ \E oldNames \in ServiceNameSets, newNames \in ServiceNameSets, kind \in Kinds :
         \/ \E items \in OldItemLists(kind), entries \in NewEntryLists(kind),
               oldEntries \in OldEntryLists(kind) :
              /\ in_old_meta = MergeOldMeta(oldNames, kind, items, AuthoredApp)
              /\ in_new_compose = MergeCompose(newNames, kind, entries)
              /\ in_old_compose = MergeCompose(oldNames, kind, oldEntries)
              /\ in_new_app = [title |-> "", tagline |-> "", description |-> ""]
         \/ \E oldApp \in OldApps, newApp \in NewApps, image \in OldImages :
              /\ in_old_meta = MergeOldMeta(oldNames, kind, <<>>, oldApp)
              /\ in_new_compose = MergeCompose(newNames, kind, <<>>)
              /\ in_old_compose =
                    [services |-> [n \in oldNames |->
                        [MergeCompose(oldNames, kind, <<>>).services[n]
                            EXCEPT !.image = IF n = "web" THEN image ELSE @]]]
              /\ in_new_app = newApp
    /\ out_diff = None
    /\ out_skeleton = None
    /\ out_merged = None
    /\ pc = "input"
    /\ now = 0
    /\ config = None
    /\ current = None
    /\ history = <<>>
    /\ composeHash = None
    /\ composeBackup = None
    /\ paramsFile = None
    /\ ops = 0
    /\ last = <<>>
    /\ commit = <<>>
    /\ scen = <<>>

DoComputeDiff ==
    /\ pc = "input"
    /\ out_diff' = Some(compute_compose_diff(in_old_compose, in_new_compose))
    /\ pc' = "diffed"
    /\ UNCHANGED <<in_old_meta, in_new_app, in_old_compose, in_new_compose,
                   out_skeleton, out_merged>>
    /\ UNCHANGED storeVars

DoBuildSkeleton ==
    /\ pc = "diffed"
    /\ HasServices(in_new_compose)
    /\ out_skeleton' = Some([build_casaos_meta(in_new_compose) EXCEPT !.app = in_new_app])
    /\ pc' = "built"
    /\ UNCHANGED <<in_old_meta, in_new_app, in_old_compose, in_new_compose,
                   out_diff, out_merged>>
    /\ UNCHANGED storeVars

DoMerge ==
    /\ pc = "built"
    /\ out_merged' = Some(merge_meta_with_diff(in_old_meta, Get(out_skeleton), Get(out_diff)))
    /\ pc' = "merged"
    /\ UNCHANGED <<in_old_meta, in_new_app, in_old_compose, in_new_compose,
                   out_diff, out_skeleton>>
    /\ UNCHANGED storeVars

\* incremental.py:99-113 on the merged tree: params, then the fill
DoFill(params, llm) ==
    /\ pc = "merged"
    /\ LET with_params == IF params # None
                          THEN apply_params_to_meta(Get(out_merged), Get(params))
                          ELSE Get(out_merged)
           r == fill_if_configured(with_params, "incremental", out_diff, llm)
       IN  last' = [prefill |-> with_params, llm |-> llm, raised |-> r.raised,
                    meta |-> r.meta, called |-> r.called]
    /\ pc' = "filled"
    /\ UNCHANGED <<in_old_meta, in_new_app, in_old_compose, in_new_compose,
                   out_diff, out_skeleton, out_merged>>
    /\ UNCHANGED <<now, config, current, history, composeHash, composeBackup,
                   paramsFile, ops, commit, scen>>

MergeNext ==
    \/ DoComputeDiff
    \/ DoBuildSkeleton
    \/ DoMerge
    \/ \E params \in ParamsChoices, llm \in LLMChoices : DoFill(params, llm)

SpecMerge == MergeInit /\ [][MergeNext]_vars

(***************************************************************************)
(* SpecCommit: incremental_update one store write at a time.  The update   *)
(* reads the store and builds the new metadata, then _save_and_backup      *)
(* performs its writes in order; a write may raise OSError, and the        *)
(* process may be killed at any write.  An interrupted write of a metadata *)
(* or hash file leaves the target untouched or truncated.                  *)
(***************************************************************************)
MaxUpdates == 2         \* updates begun on the work directory

NoCommit ==
    [status |-> "idle", step |-> 0, file |-> "", force |-> FALSE, path |-> "",
     meta |-> None, old_meta |-> None, diff |-> None, torn |-> FALSE,
     before |-> Store(None, <<>>, None, None)]

CommitInit ==
    /\ now = 1
    /\ config \in ConfigChoices
    /\ current = None
    /\ history = <<>>
    /\ composeHash = None
    /\ composeBackup = None
    /\ paramsFile \in ParamsChoices
    /\ ops = 0
    /\ last = NoLast
    /\ commit = NoCommit
    /\ scen = NoScenario
    /\ in_old_meta = None
    /\ in_new_app = None
    /\ in_old_compose = None
    /\ in_new_compose = None
    /\ out_diff = None
    /\ out_skeleton = None
    /\ out_merged = None
    /\ pc = "commit"

SetStore(st) ==
    /\ current' = st.current
    /\ history' = st.history
    /\ composeHash' = st.composeHash
    /\ composeBackup' = st.composeBackup

\* incremental_update up to the first statement of _save_and_backup; a cache
\* hit or an exception ends the call here
BeginUpdate(file, force, llm) ==
    /\ commit.status # "writing"
    /\ ops < MaxUpdates
    /\ ops' = ops + 1
    /\ \E r \in {incremental_update(TheStore, config, now, file, paramsFile, force, llm)} :
          commit' = [NoCommit EXCEPT
              !.status = IF r.raised # "" THEN "raised"
                         ELSE IF r.path = "cache" THEN "done" ELSE "writing",
              !.step = IF r.raised = "" /\ r.path # "cache" THEN 1 ELSE 0,
              !.file = file, !.force = force, !.path = r.path,
              !.meta = r.meta, !.old_meta = load_current_meta(current),
              !.diff = r.diff, !.before = TheStore]
    /\ UNCHANGED <<now, config, current, history, composeHash, composeBackup,
                   paramsFile, last, scen>>
    /\ UNCHANGED mergeVars

\* the next statement of _save_and_backup runs to its end
CommitWrite ==
    /\ commit.status = "writing"
    /\ SetStore(commit_write(TheStore, config, now, Get(commit.meta), commit.file,
                             commit.old_meta, commit.step))
    /\ commit' = IF commit.step = Len(CommitWrites)
                 THEN [commit EXCEPT !.status = "done"]
                 ELSE [commit EXCEPT !.step = @ + 1]
    /\ UNCHANGED <<now, config, paramsFile, ops, last, scen>>
    /\ UNCHANGED mergeVars

ShowComposeDiff(file) ==
    /\ commit.status # "writing"
    /\ ops < MaxUpdates
    /\ ops' = ops + 1
    /\ \E r \in {show_compose_diff(TheStore, file)} :
          /\ SetStore(r.store)
          /\ commit' = [NoCommit EXCEPT !.status = "shown", !.file = file,
                                        !.diff = r.diff, !.before = TheStore]
    /\ UNCHANGED <<now, config, paramsFile, last, scen>>
    /\ UNCHANGED mergeVars

\* a truncated metadata file is no valid JSON
Torn(blob) == [blob EXCEPT !.valid = FALSE]

\* the target of write number `step` after the write was cut short
torn_write(st, cfg, t, new_meta, file, old_meta, step) ==
    CASE CommitWrites[step] = "backup" ->
            IF old_meta # None /\ auto_backup_before_update(cfg) /\ st.current # None
            THEN [st EXCEPT !.history = (t :> Torn(Get(st.current))) @@ st.history]
            ELSE st
      [] CommitWrites[step] = "current" ->
            [st EXCEPT !.current = Some(Torn(model_dump_json(new_meta)))]
      [] CommitWrites[step] = "hash"    -> [st EXCEPT !.composeHash = Some("")]
      [] CommitWrites[step] = "compose" -> st

\* the write about to run raises OSError ("failed") or the process is killed
\* at it ("killed"); the target is untouched, or truncated when torn
Interrupt(how, torn) ==
    /\ commit.status = "writing"
    /\ SetStore(IF torn
                THEN torn_write(TheStore, config, now, Get(commit.meta), commit.file,
                                commit.old_meta, commit.step)
                ELSE TheStore)
    /\ commit' = [commit EXCEPT !.status = how, !.torn = torn]
    /\ UNCHANGED <<now, config, paramsFile, ops, last, scen>>
    /\ UNCHANGED mergeVars

CommitNext ==
    \/ Tick
    \/ \E file \in DOMAIN ComposeFiles, force \in BOOLEAN, llm \in LLMChoices :
          BeginUpdate(file, force, llm)
    \/ CommitWrite
    \/ \E file \in DOMAIN ComposeFiles : ShowComposeDiff(file)
    \/ \E how \in {"failed", "killed"}, torn \in BOOLEAN : Interrupt(how, torn)

SpecCommit == CommitInit /\ [][CommitNext]_vars

(***************************************************************************)
(* SpecRace: two incremental_update calls on the same work directory, in   *)
(* two processes.  VersionManager takes no lock: each call reads the store *)
(* and builds its metadata, then the writes of the two _save_and_backup    *)
(* interleave in any order.  commit[p] is the state of call p, last.writer *)
(* the call that wrote last.                                               *)
(***************************************************************************)
Runs == {1, 2}

RaceInit ==
    /\ now = 1
    /\ config \in ConfigChoices
    /\ current = None
    /\ history = <<>>
    /\ composeHash = None
    /\ composeBackup = None
    /\ paramsFile \in ParamsChoices
    /\ ops = 0
    /\ last = [writer |-> 0]
    /\ commit = [p \in Runs |-> NoCommit]
    /\ scen = NoScenario
    /\ in_old_meta = None
    /\ in_new_app = None
    /\ in_old_compose = None
    /\ in_new_compose = None
    /\ out_diff = None
    /\ out_skeleton = None
    /\ out_merged = None
    /\ pc = "race"

\* call p runs up to the first statement of its _save_and_backup
RaceBegin(p, file, force, llm) ==
    /\ commit[p].status = "idle"
    /\ \E r \in {incremental_update(TheStore, config, now, file, paramsFile, force, llm)} :
          commit' = [commit EXCEPT ![p] = [NoCommit EXCEPT
              !.status = IF r.raised # "" THEN "raised"
                         ELSE IF r.path = "cache" THEN "done" ELSE "writing",
              !.step = IF r.raised = "" /\ r.path # "cache" THEN 1 ELSE 0,
              !.file = file, !.force = force, !.path = r.path,
              !.meta = r.meta, !.old_meta = load_current_meta(current),
              !.diff = r.diff, !.before = TheStore]]
    /\ UNCHANGED <<now, config, current, history, composeHash, composeBackup,
                   paramsFile, ops, last, scen>>
    /\ UNCHANGED mergeVars

\* the next statement of the _save_and_backup of call p runs to its end
RaceWrite(p) ==
    /\ commit[p].status = "writing"
    /\ SetStore(commit_write(TheStore, config, now, Get(commit[p].meta), commit[p].file,
                             commit[p].old_meta, commit[p].step))
    /\ commit' = [commit EXCEPT ![p] =
                     IF commit[p].step = Len(CommitWrites)
                     THEN [@ EXCEPT !.status = "done"]
                     ELSE [@ EXCEPT !.step = @ + 1]]
    /\ last' = [writer |-> p]
    /\ UNCHANGED <<now, config, paramsFile, ops, scen>>
    /\ UNCHANGED mergeVars

RaceNext ==
    \/ \E p \in Runs, file \in DOMAIN ComposeFiles, force \in BOOLEAN, llm \in LLMChoices :
          RaceBegin(p, file, force, llm)
    \/ \E p \in Runs : RaceWrite(p)

SpecRace == RaceInit /\ [][RaceNext]_vars

(***************************************************************************)
(* Properties of the store (Spec).                                         *)
(***************************************************************************)

\* C1 - History bound: with max_history_versions N >= 1, after any sequence
\* of incremental_update, backup_to_history and rollback_to_version on one
\* work directory, list_history() never returns more than N entries.
HistoryBound ==
    max_history_versions(config) >= 1 =>
        Len(list_history(history)) <= max_history_versions(config)

\* the history is full and the last operation made the rotation unlink a file
HistoryBoundWitness ==
    /\ last.op \in {"update", "backup", "rollback"}
    /\ last.trimmed
    /\ Len(list_history(history)) = max_history_versions(config)

\* C2 - Rollback correctness: from an empty store with the default
\* max_history_versions and auto-backup on, after commit A, commit B (A backed
\* up under kA) and rollback_to_version(kA), load_current_meta() returns A and
\* some history entry holds B.
RollbackRestoresA ==
    scen.phase = 3 =>
        /\ load_current_meta(current) = scen.A
        /\ \E k \in DOMAIN history : model_validate_json(history[k]) = scen.B

\* C3 - Rollback to any listed version succeeds: for every key k that
\* list_history() returns, rollback_to_version(k) does not raise and
\* afterwards the current file holds what history entry k held at the call.
RollbackListedSucceeds ==
    [][\A k \in DOMAIN history :
          RollbackToVersion(k) =>
              /\ last'.raised = ""
              /\ current' = Some(history[k])]_vars

\* C4 - Rollback to an unknown key is a pure error: rollback_to_version(k)
\* with k not in the history raises FileNotFoundError and leaves the current
\* metadata, the history, the stored hash and the compose backup unchanged.
RollbackUnknownIsPureError ==
    [][\A k \in (1..MaxClock) \ DOMAIN history :
          RollbackToVersion(k) =>
              /\ last'.raised = "FileNotFoundError"
              /\ UNCHANGED <<current, history, composeHash, composeBackup>>]_vars

\* a rollback to a key not listed has just raised on a store holding a
\* current file and at least one history file
RollbackUnknownWitness ==
    /\ last.op = "rollback"
    /\ ~last.listed
    /\ last.raised = "FileNotFoundError"
    /\ current # None
    /\ history # <<>>

\* C5 - Idempotence of update: when incremental_update succeeded for a compose
\* file and is run again without force on the same bytes, the second run
\* returns the metadata of the first, returns no diff, calls no LLM, takes the
\* cache path (no diff, no merge) and writes nothing.
UpdateIdempotent ==
    [][\A file \in DOMAIN ComposeFiles, llm \in LLMChoices :
          (/\ last.op = "update" /\ last.raised = "" /\ last.file = file
           /\ IncrementalUpdate(file, FALSE, llm)) =>
              /\ last'.raised = ""
              /\ last'.meta = last.meta
              /\ ~last'.diff
              /\ ~last'.llm_called
              /\ last'.path = "cache"
              /\ UNCHANGED <<current, history, composeHash, composeBackup>>]_vars

\* the second of two runs on the same bytes has returned, the first having
\* generated metadata through the LLM
UpdateIdempotentWitness ==
    /\ last.op = "update"
    /\ last.again
    /\ last.path = "cache"
    /\ last.meta # None
    /\ ~has_empty_descriptions(Get(last.meta))

\* every identifier with text in `pre` carries that text in `post`, and so
\* does every app field
TextKept(pre, post) ==
    /\ \A f \in {"title", "tagline", "description"} :
          pre.app[f] # "" => post.app[f] = pre.app[f]
    /\ \A n \in DOMAIN pre.services, kind \in Kinds :
          \A i \in 1..Len(pre.services[n][kind]) :
              pre.services[n][kind][i].description # "" =>
                  /\ n \in DOMAIN post.services
                  /\ \E j \in 1..Len(post.services[n][kind]) :
                        post.services[n][kind][j].container =
                            pre.services[n][kind][i].container
                  /\ \A j \in 1..Len(post.services[n][kind]) :
                        post.services[n][kind][j].container =
                            pre.services[n][kind][i].container
                        => post.services[n][kind][j].description =
                               pre.services[n][kind][i].description

\* C6 - Text preservation through the LLM fill: in an incremental update
\* (current metadata and compose backup present, no force) that calls the
\* LLM, every identifier and app field with non-empty text in the tree handed
\* to the fill keeps exactly that text in the metadata returned and saved,
\* whatever the LLM answers.
FillKeepsAuthoredText ==
    \A file \in DOMAIN ComposeFiles, reply \in LLMReplies :
        \E r \in {incremental_update(TheStore, config, now, file, paramsFile,
                                     FALSE, Some(reply))} :
            (r.path = "incremental" /\ r.llm_called /\ r.raised = "") =>
                /\ TextKept(Get(r.prefill), Get(r.meta))
                /\ r.store.current = Some(model_dump_json(Get(r.meta)))

\* C7 - LLM failure is non-fatal: when the LLM call fails during
\* incremental_update (full or incremental path), the update still saves
\* metadata as current, updates the hash and the compose backup, and returns
\* instead of raising.
FillFailureNonFatal ==
    [][\A file \in DOMAIN ComposeFiles, force \in BOOLEAN, reply \in LLMReplies :
          (/\ ~reply.ok
           /\ IncrementalUpdate(file, force, Some(reply))
           /\ last'.llm_called) =>
              /\ last'.raised = ""
              /\ last'.meta # None
              /\ load_current_meta(current') = last'.meta
              /\ composeHash' = Some(compute_compose_hash(file))
              /\ composeBackup' = Some(file)]_vars

\* C10 - New-field blankness: in an incremental update, every identifier that
\* an entry of diff.added_fields names has an empty description in the tree
\* merge_meta_with_diff makes of the current metadata and the new skeleton,
\* before params and fill, after any earlier updates and rollbacks.
AddedFieldsBlank ==
    \A file \in DOMAIN ComposeFiles :
        \E r \in {incremental_update(TheStore, config, now, file, paramsFile,
                                     FALSE, None)} :
            (r.path = "incremental" /\ r.raised = "") =>
                \A n \in DOMAIN Get(r.merged).services, kind \in Kinds :
                    \A i \in 1..Len(Get(r.merged).services[n][kind]) :
                        (\E c \in Range(Get(r.diff).added_fields) :
                            c.path = FieldPath(n, kind,
                                Get(r.merged).services[n][kind][i].container))
                        => Get(r.merged).services[n][kind][i].description = ""

\* C13 - Change detection gate: has_compose_changed(D) is true exactly when
\* no hash is recorded or the recorded hash differs from the SHA-256 of D's
\* bytes; after an update has recorded the hash of D it is false for D and
\* true for every compose file with other bytes.
ChangeGate ==
    /\ \A f \in DOMAIN ComposeFiles :
          has_compose_changed(composeHash, f) =
              (composeHash = None \/ Get(composeHash) # compute_compose_hash(f))
    /\ (last.op = "update" /\ last.raised = "" /\ last.path # "cache") =>
          \A f \in DOMAIN ComposeFiles :
              has_compose_changed(composeHash, f) = (f # last.file)

\* an update has just recorded the hash of its compose file, in a second
\* commit on the store
ChangeGateWitness ==
    /\ last.op = "update" /\ last.raised = "" /\ last.path = "incremental"
    /\ composeHash = Some(compute_compose_hash(last.file))
    /\ ~has_compose_changed(composeHash, last.file)
    /\ \E f \in DOMAIN ComposeFiles : has_compose_changed(composeHash, f)

\* C16 - Commit postcondition: after a successful incremental_update for a
\* compose file D, cache hit or not, load_current_meta() equals the metadata
\* returned and has_compose_changed(D) is false; after a run that was no
\* cache hit the compose backup holds D's bytes.
CommitPostcondition ==
    (last.op = "update" /\ last.raised = "") =>
        /\ last.meta # None
        /\ load_current_meta(current) = last.meta
        /\ ~has_compose_changed(composeHash, last.file)
        /\ last.path # "cache" => composeBackup = Some(last.file)

\* an incremental update has committed metadata that differs from the one
\* it replaced
CommitPostconditionWitness ==
    /\ last.op = "update" /\ last.raised = "" /\ last.path = "incremental"
    /\ \E k \in DOMAIN history :
          /\ model_validate_json(history[k]) # None
          /\ model_validate_json(history[k]) # last.meta

\* service names and, per service and kind, the identifiers in order
ShapeOf(meta) ==
    [n \in DOMAIN meta.services |->
        [kind \in Kinds |->
            [i \in 1..Len(meta.services[n][kind]) |->
                meta.services[n][kind][i].container]]]

\* C17 - The stored hash always describes the current metadata: after any
\* sequence of successful incremental_update and rollback_to_version calls,
\* the service names and identifiers of the current metadata are those of the
\* compose file whose hash is stored (the backed-up one), so that a cache
\* hit never returns metadata derived from another compose file.
HashDescribesCurrent ==
    (load_current_meta(current) # None /\ composeBackup # None) =>
        /\ composeHash = Some(compute_compose_hash(Get(composeBackup)))
        /\ ShapeOf(Get(load_current_meta(current))) =
              ShapeOf(build_casaos_meta(load_compose_file(Get(composeBackup))))

\* C18 - History entries are immutable and the history is append-only: no
\* step alters the content of an existing history entry (an entry only goes
\* away through rotation), and each successful backup_to_history writes under
\* a key that no existing entry has.
HistoryImmutable ==
    [][/\ \A k \in DOMAIN history :
             k \in DOMAIN history' => history'[k] = history[k]
       /\ (BackupToHistory /\ last'.listed) => last'.key \notin DOMAIN history]_vars

\* the n largest keys of S
Newest(S, n) == {k \in S : Cardinality({j \in S : j > k}) < n}

\* C20 - Rotation keeps the newest: list_history() is ordered newest first by
\* key, and right after every backup_to_history with max_history_versions N
\* the history consists of exactly the min(N, count) entries with the most
\* recent keys among those present before trimming; only older ones go.
RotationKeepsNewest ==
    [][/\ \A i \in 1..Len(list_history(history')) :
             \A j \in (i + 1)..Len(list_history(history')) :
                 list_history(history')[i] > list_history(history')[j]
       /\ Range(list_history(history')) = DOMAIN history'
       /\ (history' # history \/ (BackupToHistory /\ last'.listed)) =>
             LET before == DOMAIN history \cup {now}
                 N == max_history_versions(config)
                 kept == IF N < Cardinality(before) THEN N ELSE Cardinality(before)
             IN  /\ DOMAIN history' = Newest(before, kept)
                 /\ \A k \in DOMAIN history' \ {now} : history'[k] = history[k]]_vars

\* backup_to_history has just written the newest entry and rotation has
\* unlinked an older one
RotationKeepsNewestWitness ==
    /\ last.op = "backup"
    /\ last.listed
    /\ last.trimmed
    /\ last.key = now
    /\ current = Some(history[now])
    /\ \A k \in DOMAIN history : k <= now

(***************************************************************************)
(* Properties of merge_meta_with_diff (SpecMerge).                         *)
(***************************************************************************)

\* C8 - Text preservation by merge: if service S is in the old metadata and
\* in the skeleton, and identifier X has non-empty text T in old S and is in
\* the skeleton's list of the same kind, the merged X has description T.
MergeKeepsOldText ==
    pc = "merged" =>
        \A n \in DOMAIN in_old_meta.services \cap DOMAIN Get(out_skeleton).services,
           kind \in Kinds :
            \A i \in 1..Len(in_old_meta.services[n][kind]) :
                in_old_meta.services[n][kind][i].description # "" =>
                    \A j \in 1..Len(Get(out_merged).services[n][kind]) :
                        Get(out_merged).services[n][kind][j].container =
                            in_old_meta.services[n][kind][i].container
                        => Get(out_merged).services[n][kind][j].description =
                               in_old_meta.services[n][kind][i].description

\* C9 - Shape preservation by merge: the merged tree has exactly the
\* skeleton's service names and, per service, the skeleton's port, env and
\* volume identifiers in the same order with the same multiplicity; a service
\* that only the old metadata has is not in it.
MergeKeepsShape ==
    pc = "merged" =>
        /\ DOMAIN Get(out_merged).services = DOMAIN Get(out_skeleton).services
        /\ \A n \in DOMAIN Get(out_skeleton).services, kind \in Kinds :
              [i \in 1..Len(Get(out_merged).services[n][kind]) |->
                  Get(out_merged).services[n][kind][i].container]
              = [i \in 1..Len(Get(out_skeleton).services[n][kind]) |->
                    Get(out_skeleton).services[n][kind][i].container]

\* a merge is done whose old metadata has a service the skeleton lacks and,
\* in a shared service, an identifier the skeleton lacks and a repeated one
MergeKeepsShapeWitness ==
    /\ pc = "merged"
    /\ DOMAIN in_old_meta.services \ DOMAIN Get(out_skeleton).services # {}
    /\ \E n \in DOMAIN in_old_meta.services \cap DOMAIN Get(out_skeleton).services,
          kind \in Kinds :
          /\ Containers(in_old_meta.services[n][kind])
                 \ Containers(Get(out_skeleton).services[n][kind]) # {}
          /\ Len(Get(out_skeleton).services[n][kind]) = 2
          /\ Cardinality(Containers(Get(out_skeleton).services[n][kind])) = 1

(***************************************************************************)
(* Properties of the commit, write by write (SpecCommit).                  *)
(***************************************************************************)

\* C11 - A failed storage write leaves the prior state intact: when a write
\* of the commit raises, the error reaches the caller of incremental_update
\* and current metadata, hash and compose backup are as before the update.
WriteFailureKeepsStore ==
    commit.status = "failed" =>
        /\ current = commit.before.current
        /\ composeHash = commit.before.composeHash
        /\ composeBackup = commit.before.composeBackup

\* C12 - Crash recoverability of the commit: when the process stops after the
\* history backup of a commit and before the write of the new current
\* metadata, load_current_meta() returns the metadata that was current
\* before the update.
CrashAfterBackupKeepsCurrent ==
    (/\ commit.status = "killed"
     /\ CommitWrites[commit.step] = "current"
     /\ ~commit.torn
     /\ commit.old_meta # None
     /\ auto_backup_before_update(config)) =>
        load_current_meta(current) = commit.old_meta

\* the process was killed between the backup and the write of a new current
\* that differs from the old one, whose copy is in the history
CrashAfterBackupWitness ==
    /\ commit.status = "killed"
    /\ CommitWrites[commit.step] = "current"
    /\ ~commit.torn
    /\ commit.old_meta # None
    /\ commit.meta # commit.old_meta
    /\ auto_backup_before_update(config)
    /\ \E k \in DOMAIN history : Some(history[k]) = commit.before.current

ShowDiffReadOnly ==
    commit.status = "shown" =>
        /\ TheStore = commit.before
        /\ commit.before.composeBackup = None => commit.diff = None
        /\ commit.before.composeBackup # None =>
              commit.diff = Some(compute_compose_diff(
                                     load_compose_file(Get(composeBackup)),
                                     load_compose_file(commit.file)))

\* show_compose_diff has returned on a store that holds current metadata
\* but no compose backup
ShowDiffReadOnlyWitness ==
    /\ commit.status = "shown"
    /\ commit.diff = None
    /\ current # None
    /\ composeBackup = None

\* C19 - Auto-backup policy on commit: when an update replaces a loadable
\* current metadata M and auto_backup_before_update is true or unset (with
\* max_history_versions >= 1), M is copied into the history before the new
\* current is written and is in the history right after the update; when the
\* flag is false the update leaves the history unchanged.
AutoBackupPolicy ==
    (/\ commit.status \in {"writing", "done"}
     /\ commit.path # "cache"
     /\ commit.old_meta # None
     /\ max_history_versions(config) >= 1) =>
        IF load_config(config).auto_backup_before_update # Some(FALSE)
        THEN /\ (commit.status = "done" \/ commit.step > 1) =>
                   \E k \in DOMAIN history : Some(history[k]) = commit.before.current
             /\ (commit.status = "writing" /\ commit.step <= 2) =>
                   current = commit.before.current
        ELSE history = commit.before.history

\* an update has replaced a current metadata by a different one, with the
\* flag unset in config.json
AutoBackupPolicyWitness ==
    /\ commit.status = "done"
    /\ commit.path = "incremental"
    /\ commit.old_meta # None
    /\ commit.old_meta # commit.meta
    /\ config # None
    /\ load_config(config).auto_backup_before_update = None
    /\ \E k \in DOMAIN history : Some(history[k]) = commit.before.current

\* C21 - Commit write order: within one commit the new current metadata is
\* written only after the history backup (when one is due) has succeeded,
\* and the write of the current metadata is the last write of the commit:
\* hash and compose backup are never written after it.
CurrentWrittenLast ==
    [][CommitWrite =>
         /\ (/\ current' # current
             /\ commit.old_meta # None
             /\ auto_backup_before_update(config)
             /\ max_history_versions(config) >= 1) =>
                \E k \in DOMAIN history : Some(history[k]) = commit.before.current
         /\ (composeHash' # composeHash \/ composeBackup' # composeBackup) =>
                current = commit.before.current]_vars

\* C22 - Missing or corrupt current metadata degrades to full generation:
\* load_current_meta() returns nothing, without raising, when the current
\* file is absent or unparsable, and an update that finds the hash unchanged
\* but no loadable current metadata performs a full generation and commits
\* it instead of failing or returning nothing.
DegradesToFullGeneration ==
    (commit.status # "writing" /\ (current = None \/ ~Get(current).valid)) =>
        /\ load_current_meta(current) = None
        /\ \A file \in DOMAIN ComposeFiles, llm \in LLMChoices :
              ~has_compose_changed(composeHash, file) =>
                 \E r \in {incremental_update(TheStore, config, now, file,
                                              paramsFile, FALSE, llm)} :
                    /\ r.raised = ""
                    /\ r.path = "full"
                    /\ r.meta # None
                    /\ load_current_meta(r.store.current) = r.meta

\* C23 - No compose backup means merge-free full generation: when prior
\* metadata exists, force_regenerate is false and there is no compose backup,
\* incremental_update for a changed, valid compose file commits and returns
\* what a generation from an empty work directory returns (skeleton, params,
\* fill: no text of the prior metadata), returns no diff, still backs the
\* prior current up to the history (auto-backup on) and does not fail.
NoBackupFullGeneration ==
    (/\ commit.status # "writing"
     /\ load_current_meta(current) # None
     /\ composeBackup = None) =>
        \A file \in DOMAIN ComposeFiles, llm \in LLMChoices :
            (/\ has_compose_changed(composeHash, file)
             /\ HasServices(load_compose_file(file))) =>
                \E r \in {incremental_update(TheStore, config, now, file,
                                             paramsFile, FALSE, llm)} :
                    /\ r.raised = ""
                    /\ r.diff = None
                    /\ r.meta # None
                    /\ r.meta = incremental_update(Store(None, <<>>, None, None), config,
                                    now, file, paramsFile, FALSE, llm).meta
                    /\ load_current_meta(r.store.current) = r.meta
                    /\ r.store.composeBackup = Some(file)
                    /\ (auto_backup_before_update(config)
                        /\ max_history_versions(config) >= 1) =>
                           /\ now \in DOMAIN r.store.history
                           /\ Some(r.store.history[now]) = current

(***************************************************************************)
(* Properties of the fill on the incremental path (SpecMerge).             *)
(***************************************************************************)

\* the empty texts of a tree: app fields and <<service, kind, index>>
BlankTexts(meta) ==
    {f \in {"title", "tagline", "description"} : meta.app[f] = ""}
    \cup {x \in (DOMAIN meta.services) \X Kinds \X (1..(MaxItems + 1)) :
             /\ x[3] <= Len(meta.services[x[1]][x[2]])
             /\ meta.services[x[1]][x[2]][x[3]].description = ""}

\* C24 - Fill covers every remaining blank: in an incremental update with an
\* LLM configured, the external fill is invoked if and only if the merged tree
\* (after params) still has an empty app text field or an empty port, env or
\* volume description, whether or not diff.added_fields is empty.
FillCoversBlanks ==
    (pc = "filled" /\ last.llm # None) =>
        last.called = (BlankTexts(last.prefill) # {})

\* the fill was invoked for a blank left by the merge although the diff has
\* no added field, and the blank is filled
FillCoversBlanksWitness ==
    /\ pc = "filled"
    /\ last.llm # None
    /\ last.called
    /\ last.raised = ""
    /\ Get(out_diff).added_fields = <<>>
    /\ BlankTexts(Get(out_merged)) # {}
    /\ BlankTexts(Get(last.meta)) = {}

(***************************************************************************)
(* Properties of compute_compose_diff (SpecMerge).                         *)
(***************************************************************************)

\* the identifiers of one kind that service n of a compose file declares
IdsIn(compose, n, kind) == Containers(extract(kind, compose.services[n]))

\* how many entries of a list of changes have this path and type
CountOf(changes, path, type) ==
    Cardinality({i \in 1..Len(changes) :
                    changes[i].path = path /\ changes[i].change_type = type})

AllIds(kind) == IdsOf(kind) \cup {"5432"}

\* C25 - Service-level diff: added_services is the set of service names of
\* the new compose file that the old one lacks, removed_services the set of
\* names of the old one that the new one lacks; the two are disjoint and
\* neither contains a service that both files have.
ServiceLevelDiff ==
    out_diff # None =>
        LET d == Get(out_diff)
            old_names == DOMAIN in_old_compose.services
            new_names == DOMAIN in_new_compose.services
        IN  /\ \A n \in old_names \cup new_names \cup d.added_services
                                 \cup d.removed_services :
                  /\ (n \in d.added_services) = (n \in new_names /\ n \notin old_names)
                  /\ (n \in d.removed_services) = (n \in old_names /\ n \notin new_names)
            /\ d.added_services \cap d.removed_services = {}
            /\ (old_names \cap new_names) \cap
                   (d.added_services \cup d.removed_services) = {}

\* a diff was computed between files that share one service while the old
\* one has a service that the new one dropped
ServiceLevelDiffWitness ==
    /\ out_diff # None
    /\ Get(out_diff).removed_services # {}
    /\ Get(out_diff).added_services = {}
    /\ DOMAIN in_old_compose.services \cap DOMAIN in_new_compose.services # {}

\* C26 - Field-level diff of common services: for a service in both files
\* and each of ports, envs, volumes, the diff has exactly one 'added' change
\* per identifier that only the new file has and exactly one 'removed' change
\* per identifier that only the old file has, under the path
\* services.<name>.<kind>.<identifier>, and none for an identifier in both.
CommonServiceFieldDiff ==
    out_diff # None =>
        LET d == Get(out_diff)
        IN  \A n \in DOMAIN in_old_compose.services \cap DOMAIN in_new_compose.services,
               kind \in Kinds :
                \A id \in AllIds(kind) :
                    LET inOld == id \in IdsIn(in_old_compose, n, kind)
                        inNew == id \in IdsIn(in_new_compose, n, kind)
                        path  == FieldPath(n, kind, id)
                    IN  /\ CountOf(d.added_fields, path, "added") =
                              (IF inNew /\ ~inOld THEN 1 ELSE 0)
                        /\ CountOf(d.removed_fields, path, "removed") =
                              (IF inOld /\ ~inNew THEN 1 ELSE 0)
                        /\ CountOf(d.added_fields, path, "removed") = 0
                        /\ CountOf(d.removed_fields, path, "added") = 0
                        /\ CountOf(d.modified_fields, path, "modified") = 0

\* a shared service lost one identifier, kept the other, which the new file
\* declares twice, and gained none: one removed change, no added one
CommonServiceFieldDiffWitness ==
    /\ out_diff # None
    /\ "web" \in DOMAIN in_old_compose.services \cap DOMAIN in_new_compose.services
    /\ \E kind \in Kinds :
          /\ Cardinality(IdsIn(in_old_compose, "web", kind)) = 2
          /\ Cardinality(IdsIn(in_new_compose, "web", kind)) = 1
          /\ Len(extract(kind, in_new_compose.services["web"])) = 2
    /\ Len(Get(out_diff).removed_fields) = 1
    /\ Get(out_diff).added_fields = <<>>

\* C27 - Fields of a newly added service: the diff has an 'added' change for
\* every port, env and volume identifier of a service that only the new file
\* has and no 'removed' change for it; over the whole diff the set of added
\* paths is the set of identifiers with no counterpart in the old file.
AddedServiceFieldDiff ==
    out_diff # None =>
        LET d == Get(out_diff)
            old_names == DOMAIN in_old_compose.services
            new_names == DOMAIN in_new_compose.services
        IN  /\ \A n \in new_names \ old_names, kind \in Kinds :
                  \A id \in AllIds(kind) :
                      /\ id \in IdsIn(in_new_compose, n, kind) =>
                            CountOf(d.added_fields, FieldPath(n, kind, id), "added") >= 1
                      /\ CountOf(d.removed_fields, FieldPath(n, kind, id), "removed") = 0
            /\ {d.added_fields[i].path : i \in 1..Len(d.added_fields)} =
                  {FieldPath(x[1], x[2], x[3]) :
                      x \in {y \in new_names \X Kinds \X (AllIds("ports") \cup AllIds("envs")
                                                           \cup AllIds("volumes")) :
                                /\ y[3] \in IdsIn(in_new_compose, y[1], y[2])
                                /\ ~(/\ y[1] \in old_names
                                     /\ y[3] \in IdsIn(in_old_compose, y[1], y[2]))}}
            /\ \A i \in 1..Len(d.added_fields) : d.added_fields[i].change_type = "added"

\* the new file adds service web, which declares two identifiers of a kind
\* other than ports, next to a service that both files have
AddedServiceFieldDiffWitness ==
    /\ out_diff # None
    /\ Get(out_diff).added_services = {"web"}
    /\ DOMAIN in_old_compose.services = {"db"}
    /\ DOMAIN in_new_compose.services = {"web", "db"}
    /\ \E kind \in Kinds \ {"ports"} :
          Cardinality(IdsIn(in_new_compose, "web", kind)) = 2
    /\ Len(Get(out_diff).added_fields) = 2

\* both files have the same service names and, per service and kind, the
\* same identifiers
SameIdentifiers(old_compose, new_compose) ==
    /\ DOMAIN old_compose.services = DOMAIN new_compose.services
    /\ \A n \in DOMAIN old_compose.services, kind \in Kinds :
          IdsIn(old_compose, n, kind) = IdsIn(new_compose, n, kind)

\* C28 - The diff depends only on identifier presence: modified_fields is
\* always empty, and for two compose files with the same service names and
\* the same identifier sets (a file against itself included) has_changes()
\* is false, whatever the images, host ports and env values.
DiffIgnoresValues ==
    out_diff # None =>
        /\ Get(out_diff).modified_fields = <<>>
        /\ SameIdentifiers(in_old_compose, in_new_compose) =>
              ~has_changes(Get(out_diff))

\* a diff was computed between two files that differ only in the host side
\* of an entry and declare the same identifiers
DiffIgnoresValuesWitness ==
    /\ out_diff # None
    /\ SameIdentifiers(in_old_compose, in_new_compose)
    /\ "web" \in DOMAIN in_old_compose.services
    /\ in_old_compose.services["web"] # in_new_compose.services["web"]
    /\ \E kind \in Kinds : IdsIn(in_old_compose, "web", kind) # {}
    /\ ~has_changes(Get(out_diff))

(***************************************************************************)
(* Properties of the app-level merge (SpecMerge).                          *)
(***************************************************************************)

\* the skeleton's deterministic default of an app text field: its title, the
\* tagline templated from its title, its description
SkeletonDefault(skeleton_app, f) ==
    CASE f = "title"       -> skeleton_app.title
      [] f = "tagline"     -> skeleton_app.title \o CasaOSSuffix
      [] f = "description" -> skeleton_app.description

\* C29 - App-level merge rule: merge_meta_with_diff keeps the old app title,
\* tagline and description exactly when the old value is non-empty and
\* differs from the skeleton's deterministic default for that field, the
\* description in addition only when it is longer than 100 characters;
\* otherwise the skeleton's value for that field is left in place.
AppMergeRule ==
    pc = "merged" =>
        \A f \in {"title", "tagline", "description"} :
            LET old == in_old_meta.app[f]
                keep == /\ old # ""
                        /\ old # SkeletonDefault(Get(out_skeleton).app, f)
                        /\ f = "description" => Len(old) > 100
            IN  Get(out_merged).app[f] = IF keep THEN old ELSE Get(out_skeleton).app[f]

(***************************************************************************)
(* Properties of two concurrent updates (SpecRace).                        *)
(***************************************************************************)

\* C30 - Concurrent updates are last-writer-wins: when two incremental_update
\* runs on the same work directory interleave at the granularity of their
\* store writes, then after both have finished the current metadata, the
\* stored hash and the compose backup all come from the same run, the last
\* writer, with no mixture of one run's metadata and the other's hash or
\* compose backup.
LastWriterWins ==
    (\A p \in Runs : commit[p].status = "done" /\ commit[p].path # "cache") =>
        \E p \in Runs :
            /\ last.writer = p
            /\ load_current_meta(current) = commit[p].meta
            /\ composeHash = Some(compute_compose_hash(commit[p].file))
            /\ composeBackup = Some(commit[p].file)

====
